---- MODULE Spec2Model ----
(***************************************************************************)
(* A model of app/main.py: the GNews API-key rotator, the outbound fetch   *)
(* helper, the three news handlers, the two auth-forwarding handlers, the  *)
(* four user-data handlers and the diagnostic endpoint.                    *)
(*                                                                         *)
(* The rotation cursor and the two record sets are disjoint state: no      *)
(* handler touches both.  Requests are handled one at a time, each handler *)
(* one step, in                                                            *)
(*   SpecNews  every handler but the two that insert rows,                 *)
(*   SpecData  every handler but the three that fetch news;                *)
(* SpecConc  runs get_gnews_api_key in several threads, one step per read  *)
(*           or write of the shared cursor.                                *)
(* SpecTok   applies the handlers' token extraction to every              *)
(*           Authorization header of bounded length.                       *)
(***************************************************************************)
EXTENDS Integers, Sequences, FiniteSets, TLC

VARIABLES
    GNEWS_API_KEYS,          \* main.py:28  the configured credentials, in order
    current_api_key_index,   \* main.py:32  the shared rotation cursor
    returned,                \* history: the keys get_gnews_api_key returned, in call order
    gnews_gets,              \* history: the apikey of every upstream GET, in order
    nfetch,                  \* history: number of requests that entered fetch_gnews
    savednews,               \* the external 'savednews' record set
    history,                 \* the external 'history' record set
    insertedBy,              \* history: per savednews row, the user id resolved for the inserting request
    last,                    \* the last request handled and its response and effects
    pc, key, tmp, idx,       \* SpecConc: per thread, position and locals of get_gnews_api_key
    lastIdx,                 \* SpecConc: per thread, the cursor position its last completed call served
    oob                      \* SpecConc: some call indexed the list out of range

vars == << GNEWS_API_KEYS, current_api_key_index, returned, gnews_gets, nfetch,
           savednews, history, insertedBy, last,
           pc, key, tmp, idx, lastIdx, oob >>

seqVars  == << returned, gnews_gets, nfetch >>
userVars == << savednews, history, insertedBy >>
concVars == << pc, key, tmp, idx, lastIdx, oob >>

----------------------------------------------------------------------------
(* Bounds and input domains *)

MaxKeys == 3        \* number of GNEWS_API_KEY_i slots explored (the code reads 5)
MaxCalls == 6       \* news requests explored per run
MaxRows == 2        \* rows explored per record set
MaxHdrLen == 3      \* longest Authorization header explored in SpecTok

KeyVals == {"k1", "k2"}
Threads == {"t1", "t2"}
Users == {"u1", "u2"}
Titles == {"a1"}
Chars == {" ", "a", "b"}
NoKey == "none"
IndexError == "IndexError"

\* Sequences over S of length lo..hi
SeqsOf(S, lo, hi) == UNION { [1..n -> S] : n \in lo..hi }

----------------------------------------------------------------------------
(* Key rotator, main.py:27-42 *)

\* main.py:28-31  the keys of the slots that are set, in slot order; env[i] is
\* the value of GNEWS_API_KEY_i, "" when unset or empty
RECURSIVE LoadKeys(_, _)
LoadKeys(env, i) ==
    IF i > Len(env) THEN << >>
    ELSE (IF env[i] # "" THEN << env[i] >> ELSE << >>) \o LoadKeys(env, i + 1)

\* main.py:37  `if not GNEWS_API_KEYS`
NotConfiguredNever(keys) == FALSE
NotConfigured(keys) == Len(keys) = 0

\* main.py:40  GNEWS_API_KEYS[i]; Python raises IndexError out of range
KeyAt(keys, i) == IF i >= 0 /\ i < Len(keys) THEN keys[i + 1] ELSE IndexError

\* main.py:41  (current_api_key_index + 1) % len(GNEWS_API_KEYS)
NextIndexStuck(i, n) == i
NextIndexSkip(i, n) == (i + 2) % n
NextIndexNoWrap(i, n) == i + 1
NextIndex(i, n) == (i + 1) % n

\* main.py:34-42  one whole call: what is raised, what is returned, the cursor after
GetGnewsApiKey(keys, i) ==
    IF NotConfigured(keys)
    THEN [raised |-> "HTTPException", status |-> 500,
          detail |-> "GNews API keys not configured.", key |-> NoKey, index |-> i]
    ELSE IF KeyAt(keys, i) = IndexError
    THEN [raised |-> IndexError, status |-> 500,
          detail |-> "Internal Server Error", key |-> NoKey, index |-> i]
    ELSE [raised |-> "none", status |-> 200, detail |-> "",
          key |-> KeyAt(keys, i), index |-> NextIndex(i, Len(keys))]

----------------------------------------------------------------------------
(* Requests and responses *)

\* an optional string: a query parameter or a header that may be absent
Absent == [present |-> FALSE, value |-> << >>]
Given(s) == [present |-> TRUE, value |-> s]

NoToken == [set |-> FALSE, value |-> << >>]

\* the record of a handled request: inputs, response, and the calls it made
Blank ==
    [op |-> "none", status |-> 0, detail |-> "", endpoint |-> "",
     q |-> Absent, hdr |-> Absent, token |-> NoToken,
     upstreamOk |-> TRUE, authOk |-> TRUE, storeOk |-> TRUE,
     draws |-> 0, gets |-> 0, auths |-> 0, selects |-> 0, inserts |-> 0,
     cursorBefore |-> 0, rowsBefore |-> [saved |-> 0, hist |-> 0],
     body |-> [title |-> "", user_id |-> "none"], data |-> << >>]

\* the record r with the cursor and the row counts the request found
Seen(r) ==
    [r EXCEPT !.cursorBefore = current_api_key_index,
              !.rowsBefore = [saved |-> Len(savednews), hist |-> Len(history)]]

\* a response that changes nothing but the record of the last request
Respond(r) ==
    /\ last' = Seen(r)
    /\ UNCHANGED << GNEWS_API_KEYS, current_api_key_index, seqVars, userVars, concVars >>

----------------------------------------------------------------------------
(* Outbound fetch helper and news handlers, main.py:66-109 *)

\* main.py:73-76  raise_for_status / RequestException -> HTTPException(400)
UpstreamStatus(ok) == IF ok THEN 200 ELSE 400

\* main.py:66-76  fetch_gnews: one get_gnews_api_key call, then one requests.get
\* with the key it returned; `ok` is whether the upstream call succeeded
FetchGnews(op, endpoint, q, ok) ==
    LET r == GetGnewsApiKey(GNEWS_API_KEYS, current_api_key_index)
        called == r.raised = "none"
    IN  /\ nfetch < MaxCalls
        /\ nfetch' = nfetch + 1
        /\ current_api_key_index' = r.index
        /\ returned' = IF called THEN Append(returned, r.key) ELSE returned
        /\ gnews_gets' = IF called THEN Append(gnews_gets, r.key) ELSE gnews_gets
        /\ last' = [Seen(Blank) EXCEPT
                      !.op = op, !.endpoint = endpoint, !.q = q,
                      !.draws = IF called THEN 1 ELSE 0,
                      !.gets = IF called THEN 1 ELSE 0,
                      !.upstreamOk = called => ok,
                      !.status = IF called THEN UpstreamStatus(ok) ELSE r.status,
                      !.detail = IF ~called THEN r.detail
                                 ELSE IF ok THEN "" ELSE "Error fetching from GNews"]
        /\ UNCHANGED << GNEWS_API_KEYS, userVars, concVars >>

\* main.py:78-85
GetTopHeadlines ==
    \E ok \in BOOLEAN : FetchGnews("get_top_headlines", "top-headlines", Absent, ok)

\* main.py:87-96
GetNewsByCategory ==
    \E ok \in BOOLEAN : FetchGnews("get_news_by_category", "top-headlines", Absent, ok)

QVals == {Absent, Given(<< >>), Given(<< "a" >>)}

\* main.py:99  `q: str` has no default: the framework answers a request
\* without q itself (422) and never calls the handler
QueryMissing(q) == ~q.present

\* main.py:100  `if not q`
QueryEmpty(q) == q.value = << >>

\* main.py:98-109
SearchNews ==
    \E q \in QVals, ok \in BOOLEAN :
        IF QueryMissing(q)
        THEN Respond([Blank EXCEPT !.op = "search_news", !.q = q,
                        !.status = 422, !.detail = "Field required"])
        ELSE IF QueryEmpty(q)
        THEN Respond([Blank EXCEPT !.op = "search_news", !.q = q,
                        !.status = 400,
                        !.detail = "Search query parameter 'q' is required."])
        ELSE FetchGnews("search_news", "search", q, ok)

----------------------------------------------------------------------------
(* Auth forwarding handlers, main.py:112-139 *)

\* main.py:112-128  sign_up succeeds, or any exception -> 400 with its message
Signup ==
    \E ok \in BOOLEAN :
        Respond([Blank EXCEPT !.op = "signup", !.authOk = ok,
                   !.status = IF ok THEN 200 ELSE 400,
                   !.detail = IF ok THEN "" ELSE "str(e)"])

\* main.py:130-139  sign_in_with_password succeeds, or any exception -> 401, fixed message
Login ==
    \E ok \in BOOLEAN :
        Respond([Blank EXCEPT !.op = "login", !.authOk = ok,
                   !.status = IF ok THEN 200 ELSE 401,
                   !.detail = IF ok THEN "" ELSE "Invalid login credentials."])

----------------------------------------------------------------------------
(* User-data handlers, main.py:143-218 *)

HasSpace(s) == \E i \in 1..Len(s) : s[i] = " "

FirstSpace(s) == CHOOSE i \in 1..Len(s) : s[i] = " " /\ \A j \in 1..(i - 1) : s[j] # " "

\* Python's str.split(" "): the pieces between single spaces, empty pieces kept
RECURSIVE Split(_)
Split(s) ==
    IF ~HasSpace(s) THEN << s >>
    ELSE << SubSeq(s, 1, FirstSpace(s) - 1) >> \o Split(SubSeq(s, FirstSpace(s) + 1, Len(s)))

\* main.py:149 (= 162, 175, 198)
\* authorization.split(" ")[1] if " " in authorization else authorization
ExtractTokenRemainder(authorization) ==
    IF HasSpace(authorization)
    THEN SubSeq(authorization, FirstSpace(authorization) + 1, Len(authorization))
    ELSE authorization
ExtractToken(authorization) ==
    IF HasSpace(authorization) THEN Split(authorization)[2] ELSE authorization

\* main.py:147 (= 160, 173, 196)  `if not authorization`: None or ""
AuthMissingEmptyOnly(h) == h.present /\ h.value = << >>
AuthMissing(h) == ~h.present \/ h.value = << >>

\* The external auth service: the sessions it knows, token -> user id
ValidToken(tok) == tok \in { << "a" >>, << "b" >> }
UserOf(tok) == IF tok = << "a" >> THEN "u1" ELSE "u2"

\* main.py:151-152  supabase.auth.get_user(token) raises unless the service
\* answers (up) and knows the token
GetUserOk(tok, up) == up /\ ValidToken(tok)

\* main.py:153, 166  .select("*").eq('user_id', user_id): the rows of that user, in store order
SelectEq(table, uid) == SelectSeq(table, LAMBDA r : r.user_id = uid)

\* main.py:184-185 (= 202-203)  article.dict() holds the NewsArticle fields only
\* (a user_id submitted in the body is not one); then record['user_id'] = user_id
MakeRecordKeepBody(body, uid) ==
    [title |-> body.title,
     user_id |-> IF body.user_id # "none" THEN body.user_id ELSE uid]
MakeRecord(body, uid) == [title |-> body.title, user_id |-> uid]

\* main.py:150-156  one try around get_user and select: any exception -> 401
GetSavedStatus500(authOk, storeOk) ==
    IF ~authOk THEN 401 ELSE IF storeOk THEN 200 ELSE 500
GetSavedStatus(authOk, storeOk) == IF authOk /\ storeOk THEN 200 ELSE 401

\* main.py:163-169  one try around get_user and select: any exception -> 401
GetHistoryStatus(authOk, storeOk) == IF authOk /\ storeOk THEN 200 ELSE 401

\* main.py:176-192  get_user failure -> 401; insert failure -> 500
SaveArticleStatus(authOk, storeOk) ==
    IF ~authOk THEN 401 ELSE IF storeOk THEN 200 ELSE 500

\* main.py:199-209  one try around get_user and insert: any exception -> 401
AddToHistoryStatus(authOk, storeOk) == IF authOk /\ storeOk THEN 200 ELSE 401

Headers == { Absent, Given(<< >>), Given(<< "a" >>),
             Given(<< "b", " ", "b" >>), Given(<< "b", " ", "c" >>) }

Bodies == [title : Titles, user_id : {"none", "u2"}]

Unauthorized(op, h) ==
    Respond([Blank EXCEPT !.op = op, !.hdr = h, !.status = 401, !.detail = "Unauthorized"])

\* the record of a user-data request that got past the header check
UserResp(op, h, authOk, storeOk, status, detail) ==
    [Blank EXCEPT !.op = op, !.hdr = h,
                  !.token = [set |-> TRUE, value |-> ExtractToken(h.value)],
                  !.auths = 1, !.authOk = authOk,
                  !.storeOk = authOk => storeOk,
                  !.status = status, !.detail = detail]

\* main.py:145-156, over the Authorization headers in H
GetSavedNewsOn(H) ==
    \E h \in H, up \in BOOLEAN, storeOk \in BOOLEAN :
        IF AuthMissing(h) THEN Unauthorized("get_saved_news", h)
        ELSE LET tok == ExtractToken(h.value)
                 authOk == GetUserOk(tok, up)
                 status == GetSavedStatus(authOk, storeOk)
             IN  Respond([UserResp("get_saved_news", h, authOk, storeOk, status,
                                   IF status = 200 THEN "" ELSE "Invalid token")
                            EXCEPT !.selects = IF authOk THEN 1 ELSE 0,
                                   !.data = IF authOk /\ storeOk
                                            THEN SelectEq(savednews, UserOf(tok))
                                            ELSE << >>])

GetSavedNews == GetSavedNewsOn(Headers)

\* main.py:158-169, over the Authorization headers in H
GetUserHistoryOn(H) ==
    \E h \in H, up \in BOOLEAN, storeOk \in BOOLEAN :
        IF AuthMissing(h) THEN Unauthorized("get_user_history", h)
        ELSE LET tok == ExtractToken(h.value)
                 authOk == GetUserOk(tok, up)
                 status == GetHistoryStatus(authOk, storeOk)
             IN  Respond([UserResp("get_user_history", h, authOk, storeOk, status,
                                   IF status = 200 THEN "" ELSE "Invalid token")
                            EXCEPT !.selects = IF authOk THEN 1 ELSE 0,
                                   !.data = IF authOk /\ storeOk
                                            THEN SelectEq(history, UserOf(tok))
                                            ELSE << >>])

GetUserHistory == GetUserHistoryOn(Headers)

\* main.py:171-192
SaveArticle ==
    \E h \in Headers, body \in Bodies, up \in BOOLEAN, storeOk \in BOOLEAN :
        IF AuthMissing(h) THEN Unauthorized("save_article", h)
        ELSE LET tok == ExtractToken(h.value)
                 authOk == GetUserOk(tok, up)
                 status == SaveArticleStatus(authOk, storeOk)
                 stored == authOk /\ storeOk
             IN  /\ stored => Len(savednews) < MaxRows
                 /\ last' = [Seen(UserResp("save_article", h, authOk, storeOk, status,
                                           IF ~authOk THEN "Invalid token"
                                           ELSE IF storeOk THEN "Article saved"
                                           ELSE "Failed to save article"))
                               EXCEPT !.inserts = IF authOk THEN 1 ELSE 0,
                                      !.body = body]
                 /\ savednews' = IF stored
                                 THEN Append(savednews, MakeRecord(body, UserOf(tok)))
                                 ELSE savednews
                 /\ insertedBy' = IF stored THEN Append(insertedBy, UserOf(tok))
                                  ELSE insertedBy
                 /\ UNCHANGED << GNEWS_API_KEYS, current_api_key_index, seqVars,
                                 history, concVars >>

\* main.py:194-209
AddToHistory ==
    \E h \in Headers, body \in Bodies, up \in BOOLEAN, storeOk \in BOOLEAN :
        IF AuthMissing(h) THEN Unauthorized("add_to_history", h)
        ELSE LET tok == ExtractToken(h.value)
                 authOk == GetUserOk(tok, up)
                 status == AddToHistoryStatus(authOk, storeOk)
                 stored == authOk /\ storeOk
             IN  /\ stored => Len(history) < MaxRows
                 /\ last' = [Seen(UserResp("add_to_history", h, authOk, storeOk, status,
                                           IF stored THEN "Article added to history"
                                           ELSE "Invalid token"))
                               EXCEPT !.inserts = IF authOk THEN 1 ELSE 0,
                                      !.body = body]
                 /\ history' = IF stored
                               THEN Append(history, MakeRecord(body, UserOf(tok)))
                               ELSE history
                 /\ UNCHANGED << GNEWS_API_KEYS, current_api_key_index, seqVars,
                                 savednews, insertedBy, concVars >>

\* main.py:212-218  every savednews row, no authentication; a failure is
\* returned as a body, not raised
TestSavedArticles ==
    \E storeOk \in BOOLEAN :
        Respond([Blank EXCEPT !.op = "test_saved_articles", !.storeOk = storeOk,
                   !.selects = 1, !.status = 200,
                   !.detail = IF storeOk THEN "" ELSE "error",
                   !.data = IF storeOk THEN savednews ELSE << >>])

----------------------------------------------------------------------------
(* get_gnews_api_key run by concurrent threads, main.py:34-42.  Each read  *)
(* and each write of the shared cursor is a step of its own.               *)

\* main.py:37-38  the call starts; with no keys it raises and returns nothing
Call(t) ==
    /\ pc[t] = "idle"
    /\ pc' = [pc EXCEPT ![t] = IF NotConfigured(GNEWS_API_KEYS) THEN "idle" ELSE "l40"]
    /\ UNCHANGED << GNEWS_API_KEYS, current_api_key_index, seqVars, userVars, last,
                    key, tmp, idx, lastIdx, oob >>

\* main.py:40  key = GNEWS_API_KEYS[current_api_key_index]
L40(t) ==
    /\ pc[t] = "l40"
    /\ key' = [key EXCEPT ![t] = KeyAt(GNEWS_API_KEYS, current_api_key_index)]
    /\ idx' = [idx EXCEPT ![t] = current_api_key_index]
    /\ oob' = (oob \/ KeyAt(GNEWS_API_KEYS, current_api_key_index) = IndexError)
    /\ pc' = [pc EXCEPT ![t] = IF KeyAt(GNEWS_API_KEYS, current_api_key_index) = IndexError
                               THEN "idle" ELSE "l41r"]
    /\ UNCHANGED << GNEWS_API_KEYS, current_api_key_index, seqVars, userVars, last,
                    tmp, lastIdx >>

\* main.py:41  the read of current_api_key_index on the right-hand side
L41r(t) ==
    /\ pc[t] = "l41r"
    /\ tmp' = [tmp EXCEPT ![t] = current_api_key_index]
    /\ pc' = [pc EXCEPT ![t] = "l41w"]
    /\ UNCHANGED << GNEWS_API_KEYS, current_api_key_index, seqVars, userVars, last,
                    key, idx, lastIdx, oob >>

\* main.py:41  the store to current_api_key_index
L41w(t) ==
    /\ pc[t] = "l41w"
    /\ current_api_key_index' = NextIndex(tmp[t], Len(GNEWS_API_KEYS))
    /\ tmp' = [tmp EXCEPT ![t] = 0]
    /\ pc' = [pc EXCEPT ![t] = "ret"]
    /\ UNCHANGED << GNEWS_API_KEYS, seqVars, userVars, last,
                    key, idx, lastIdx, oob >>

\* main.py:42  return key: the call hands key[t] to its caller
Ret(t) ==
    /\ pc[t] = "ret"
    /\ lastIdx' = [lastIdx EXCEPT ![t] = idx[t]]
    /\ key' = [key EXCEPT ![t] = NoKey]
    /\ idx' = [idx EXCEPT ![t] = -1]
    /\ pc' = [pc EXCEPT ![t] = "idle"]
    /\ UNCHANGED << GNEWS_API_KEYS, current_api_key_index, seqVars, userVars, last,
                    tmp, oob >>

----------------------------------------------------------------------------
(* Specifications *)

IdleThreads ==
    /\ pc = [t \in Threads |-> "idle"]
    /\ key = [t \in Threads |-> NoKey]
    /\ tmp = [t \in Threads |-> 0]
    /\ idx = [t \in Threads |-> -1]
    /\ lastIdx = [t \in Threads |-> -1]
    /\ oob = FALSE

\* main.py:28-32, 47  the state after module import
Init ==
    /\ \E env \in [1..MaxKeys -> KeyVals \cup {""}] : GNEWS_API_KEYS = LoadKeys(env, 1)
    /\ current_api_key_index = 0
    /\ returned = << >>
    /\ gnews_gets = << >>
    /\ nfetch = 0
    /\ savednews = << >>
    /\ history = << >>
    /\ insertedBy = << >>
    /\ last = Blank
    /\ IdleThreads

\* Requests one at a time: every handler but save_article and add_to_history
NextNews ==
    \/ GetTopHeadlines
    \/ GetNewsByCategory
    \/ SearchNews
    \/ Signup
    \/ Login
    \/ GetSavedNews
    \/ GetUserHistory
    \/ TestSavedArticles

SpecNews == Init /\ [][NextNews]_vars

\* Requests one at a time: every handler but the three news handlers
InitData == Init /\ GNEWS_API_KEYS = << >>

NextData ==
    \/ Signup
    \/ Login
    \/ GetSavedNews
    \/ GetUserHistory
    \/ SaveArticle
    \/ AddToHistory
    \/ TestSavedArticles

SpecData == InitData /\ [][NextData]_vars

\* The read handlers over every Authorization header of at most MaxHdrLen characters
AllHeaders == { Absent } \cup { Given(s) : s \in SeqsOf(Chars, 0, MaxHdrLen) }

NextTok ==
    \/ GetSavedNewsOn(AllHeaders)
    \/ GetUserHistoryOn(AllHeaders)

SpecTok == InitData /\ [][NextTok]_vars

\* Threads calling get_gnews_api_key concurrently
NextConc == \E t \in Threads : Call(t) \/ L40(t) \/ L41r(t) \/ L41w(t) \/ Ret(t)

SpecConc == Init /\ [][NextConc]_vars

----------------------------------------------------------------------------
(* Properties *)

Range(f) == { f[i] : i \in DOMAIN f }
Count(f, v) == Cardinality({ i \in DOMAIN f : f[i] = v })
NumKeys == Len(GNEWS_API_KEYS)

UserOps == {"get_saved_news", "get_user_history", "save_article", "add_to_history"}

\* the last request went through fetch_gnews
ReachedFetch ==
    \/ last.op \in {"get_top_headlines", "get_news_by_category"}
    \/ last.op = "search_news" /\ last.q.present /\ last.q.value # << >>

\* C1 (SpecNews): sequential calls of get_gnews_api_key return the keys in
\* configuration order, the k-th call returning key[(k-1) mod N]; after 2N
\* calls every credential has been returned exactly twice as often as it is
\* configured.
C1_RoundRobin ==
    /\ \A k \in 1..Len(returned) :
          returned[k] = GNEWS_API_KEYS[((k - 1) % NumKeys) + 1]
    /\ Len(returned) = 2 * NumKeys =>
          \A v \in KeyVals : Count(returned, v) = 2 * Count(GNEWS_API_KEYS, v)

C1_Witness ==
    /\ NumKeys = 3
    /\ GNEWS_API_KEYS[1] # GNEWS_API_KEYS[2]
    /\ Len(returned) = 6

\* C2 (SpecConc): under every interleaving of the reads and writes of the
\* cursor, the cursor stays in [0, N), no call indexes the list out of range,
\* and every value a call holds to return is a configured key.
C2_CursorInRange ==
    /\ current_api_key_index >= 0
    /\ NumKeys >= 1 => current_api_key_index < NumKeys
    /\ ~oob
    /\ \A t \in Threads :
          pc[t] \in {"l41r", "l41w", "ret"} => key[t] \in Range(GNEWS_API_KEYS)

\* two calls overlap: both have read the same cursor value and neither has written
C2_Witness ==
    /\ NumKeys >= 2
    /\ pc["t1"] = "l41w" /\ pc["t2"] = "l41w"
    /\ tmp["t1"] = tmp["t2"]
    /\ current_api_key_index = 1

\* C3 (SpecConc), as claimed: with N >= 2 a caller's next call never serves the
\* position its previous call served, and the cursor only moves forward or
\* wraps from N-1 to 0.
C3_CallerAdvances ==
    [][ /\ \A t \in Threads :
              (NumKeys >= 2 /\ pc[t] = "ret" /\ pc'[t] = "idle" /\ lastIdx[t] # -1)
                  => idx[t] # lastIdx[t]
        /\ current_api_key_index' # current_api_key_index =>
              \/ current_api_key_index' > current_api_key_index
              \/ current_api_key_index = NumKeys - 1 /\ current_api_key_index' = 0
      ]_vars

\* C4 (SpecNews): with no key configured, every request that reaches
\* fetch_gnews fails with the 500 configuration error, no upstream GET is ever
\* issued, no key is ever returned, and the cursor stays at 0.
C4_EmptyKeysFail ==
    NumKeys = 0 =>
        /\ current_api_key_index = 0
        /\ returned = << >>
        /\ gnews_gets = << >>
        /\ ReachedFetch =>
              /\ last.status = 500
              /\ last.detail = "GNews API keys not configured."
              /\ last.draws = 0
              /\ last.gets = 0

C4_Witness ==
    /\ NumKeys = 0
    /\ last.op = "search_news"
    /\ last.q = Given(<< "a" >>)
    /\ last.status = 500
    /\ nfetch = 3

\* C5 (SpecNews), as claimed: a search with an empty or a missing q answers
\* 400, issues no upstream GET, draws no credential and leaves the cursor alone.
C5_SearchRejected400 ==
    (last.op = "search_news" /\ (~last.q.present \/ last.q.value = << >>)) =>
        /\ last.status = 400
        /\ last.gets = 0
        /\ last.draws = 0
        /\ current_api_key_index = last.cursorBefore

\* C6 (SpecData): a user-data request without an Authorization header answers
\* 401, resolves no token, issues no select and no insert, and leaves both
\* record sets as they were.
C6_NoHeaderNoCalls ==
    (last.op \in UserOps /\ ~last.hdr.present) =>
        /\ last.status = 401
        /\ ~last.token.set
        /\ last.auths = 0
        /\ last.selects = 0
        /\ last.inserts = 0
        /\ Len(savednews) = last.rowsBefore.saved
        /\ Len(history) = last.rowsBefore.hist

C6_Witness ==
    /\ last.op = "save_article"
    /\ ~last.hdr.present
    /\ last.status = 401
    /\ Len(savednews) = 1
    /\ Len(history) = 1

\* C7 (SpecTok), as claimed: the token is the whole of the header after its
\* first space, or the header itself when it holds no space.
C7_TokenIsRemainder ==
    last.token.set =>
        LET h == last.hdr.value
        IN  last.token.value =
                IF \E i \in 1..Len(h) : h[i] = " "
                THEN SubSeq(h, 1 + (CHOOSE i \in 1..Len(h) :
                                      h[i] = " " /\ \A j \in 1..(i - 1) : h[j] # " "),
                            Len(h))
                ELSE h

\* C7 (SpecTok), amended: the token is the part of the header between its
\* first space and its second space (or the end of the header when there is
\* no second space), or the header itself when it holds no space.
C7_TokenIsSecondField ==
    last.token.set =>
        LET h == last.hdr.value
            tok == last.token.value
            n == Len(tok)
        IN  IF \A i \in 1..Len(h) : h[i] # " "
            THEN tok = h
            ELSE /\ \A i \in 1..n : tok[i] # " "
                 /\ \E i \in 1..Len(h) :
                       /\ h[i] = " "
                       /\ \A j \in 1..(i - 1) : h[j] # " "
                       /\ i + n <= Len(h)
                       /\ \A j \in 1..n : h[i + j] = tok[j]
                       /\ i + n = Len(h) \/ h[i + n + 1] = " "

\* a header with a second space: the token stops there
C7_Witness ==
    /\ last.token.set
    /\ last.hdr.value = << " ", "a", " " >>
    /\ last.token.value = << "a" >>

\* C8 (SpecData), as claimed: after a successful token resolution a storage
\* failure answers 500 on get_saved_news, get_user_history and save_article
\* and 401 on add_to_history; a failed token resolution answers 401.
C8_StorageFailure500 ==
    (last.op \in UserOps /\ last.token.set) =>
        /\ ~last.authOk => last.status = 401
        /\ (last.authOk /\ ~last.storeOk) =>
              last.status = IF last.op = "add_to_history" THEN 401 ELSE 500

\* C8 (SpecData), amended: after a successful token resolution a storage
\* failure answers 500 on save_article only, and 401 on get_saved_news,
\* get_user_history and add_to_history; a failed token resolution answers 401
\* on all four.
C8_StorageFailureStatus ==
    (last.op \in UserOps /\ last.token.set) =>
        /\ ~last.authOk => last.status = 401
        /\ (last.authOk /\ ~last.storeOk) =>
              last.status = IF last.op = "save_article" THEN 500 ELSE 401

C8_Witness ==
    /\ last.op = "get_saved_news"
    /\ last.authOk
    /\ ~last.storeOk
    /\ last.selects = 1
    /\ last.status = 401

\* C9 (SpecData): every savednews row is owned by the user resolved for the
\* request that inserted it, whatever user id the body carried; every
\* successful save adds exactly one row, a repeated article included; and
\* get_saved_news returns exactly the rows owned by the resolved user.
C9_Ownership ==
    /\ Len(insertedBy) = Len(savednews)
    /\ \A i \in 1..Len(savednews) : savednews[i].user_id = insertedBy[i]
    /\ (last.op = "save_article" /\ last.status = 200) =>
          /\ Len(savednews) = last.rowsBefore.saved + 1
          /\ savednews[Len(savednews)] =
                [title |-> last.body.title, user_id |-> UserOf(last.token.value)]
    /\ (last.op = "get_saved_news" /\ last.status = 200) =>
          \A rec \in Range(savednews) \cup Range(last.data) :
              Count(last.data, rec) =
                  IF rec.user_id = UserOf(last.token.value)
                  THEN Count(savednews, rec) ELSE 0

\* the same article saved twice by u1, once with a foreign user id in the
\* body, then listed by u1
C9_Witness ==
    /\ Len(savednews) = 2
    /\ savednews[1] = savednews[2]
    /\ savednews[1].user_id = "u1"
    /\ last.op = "get_saved_news"
    /\ last.status = 200
    /\ Len(last.data) = 2

\* C10 (SpecNews): with N >= 1 keys every request that reaches fetch_gnews
\* draws one credential and issues one upstream GET, answering 400 when that
\* GET fails; the k-th such request uses key[(k-1) mod N] whatever happened to
\* the earlier ones; every other request draws nothing, issues no GET and
\* leaves the cursor alone.
C10_SingleAttempt ==
    NumKeys >= 1 =>
        /\ Len(gnews_gets) = nfetch
        /\ \A k \in 1..Len(gnews_gets) :
              gnews_gets[k] = GNEWS_API_KEYS[((k - 1) % NumKeys) + 1]
        /\ ReachedFetch =>
              /\ last.draws = 1
              /\ last.gets = 1
              /\ last.status = IF last.upstreamOk THEN 200 ELSE 400
        /\ ~ReachedFetch =>
              /\ last.draws = 0
              /\ last.gets = 0
              /\ current_api_key_index = last.cursorBefore

\* the fifth fetch, after a rejected search in between, fails upstream
C10_Witness ==
    /\ NumKeys = 3
    /\ GNEWS_API_KEYS[1] # GNEWS_API_KEYS[2]
    /\ nfetch = 5
    /\ last.op = "get_top_headlines"
    /\ ~last.upstreamOk
    /\ last.status = 400
    /\ gnews_gets[5] = GNEWS_API_KEYS[2]

====
